---- MODULE Spec2Model ----
(***************************************************************************)
(* The webhook dispatcher of tsuru (package webhook, routerv2.go:30-285):  *)
(* a bounded channel of event identifiers (evtCh), one worker goroutine    *)
(* (run / handleEvent / doHook), the producers' Notify, the graceful       *)
(* Shutdown, and the subscription facade (Create, validateURL).            *)
(***************************************************************************)
EXTENDS Integers, Sequences, FiniteSets, TLC

\* ------------------------------------------------------------- bounds
\* Capacity of evtCh.  The source makes the channel with 1000 slots
\* (chanBufferSize, line 64); the model scales the capacity down so that a
\* full queue is reachable.
chanBufferSize == 2
\* Number of Notify invocations in one run (each is one call of Notify).
MaxNotify == 3
\* Longest list of subscriptions FindByEvent returns.
MaxHooks == 2
\* Largest number of extra targets of an event.
MaxExtra == 2
\* Number of Notify invocations in one run of the step-by-step gauge.
MaxGaugeNotify == 2

\* The calls of Notify.  Every call notifies an event of its own (an event
\* identifier is a unique ObjectId), so call c stands for its identifier too.
Calls == 1..MaxNotify
\* Those of them that are made when the gauge is followed step by step.
GaugeCalls == 1..MaxGaugeNotify
\* The Shutdown invocations of one run: the second one panics and ends the
\* process, so there is never a third.
Shutdowns == {1, 2}

VARIABLES
    evtCh,          \* s.evtCh: the buffered channel, the sequence of the identifiers in it
    quitCh,         \* s.quitCh: "open" or "closed"
    doneCh,         \* s.doneCh: "open" or "closed"
    webhooksQueue,  \* the queue-depth gauge
    webhooksTotal,  \* counter of webhook calls
    webhooksError,  \* counter of webhook calls that ended with an error
    npc,            \* npc[c]: position of Notify call c
    nlate,          \* history: nlate[c] iff call c started with quitCh closed
    wpc,            \* position of the worker goroutine (run)
    cur,            \* run: evtID, the identifier the worker received last (0: none)
    hooks,          \* handleEvent: the subscriptions FindByEvent returned
    hookLog,        \* handleEvent: the names of the hooks doHook was called for
    spc,            \* spc[s]: position of Shutdown call s
    sres,           \* sres[s]: what Shutdown call s returned, and by which case
    ctxDone,        \* ctxDone[s]: the context of Shutdown call s is done
    panicked,       \* the process died of a panic
    pushed,         \* history: the identifiers whose send on evtCh completed, in order
    dequeued,       \* history: the identifiers the worker received, in order
    handled,        \* history: the identifiers whose handleEvent returned, in order
    errLog,         \* the identifiers run logged an error of handleEvent for (line 141)
    attempts,       \* history: number of calls of doHook that returned
    failed,         \* history: number of calls of doHook that returned an error
    matched,        \* history: number of subscriptions FindByEvent returned, all calls together
    nlen,           \* nlen[c]: the len(s.evtCh) Notify call c evaluated (line 130)
    wlen,           \* the len(s.evtCh) run evaluated (line 138)
    store,          \* the names of the subscriptions the store holds
    insertCalls,    \* number of calls of storage.Insert
    createCall,     \* a call of Create: its argument and, once done, what it returned
    hookCall,       \* a call of doHook on its own: its arguments and, once done, its result
    filterCall      \* a call of handleEvent up to FindByEvent: the event and what the store was passed

vars == <<evtCh, quitCh, doneCh, webhooksQueue, webhooksTotal, webhooksError,
          npc, nlate, wpc, cur, hooks, hookLog,
          spc, sres, ctxDone, panicked, pushed, dequeued, handled,
          errLog, attempts, failed, matched, nlen, wlen,
          store, insertCalls, createCall, hookCall, filterCall>>

notifyVars == <<npc, nlate>>
workerVars == <<wpc, cur, hooks, hookLog>>
shutdownVars == <<spc, sres, ctxDone>>
histVars == <<pushed, dequeued, handled>>
logVars == <<errLog, attempts, failed, matched>>
gaugeVars == <<nlen, wlen>>
facadeVars == <<store, insertCalls, createCall>>
dispatchVars == <<evtCh, quitCh, doneCh, webhooksQueue, notifyVars, workerVars,
                  shutdownVars, panicked, histVars, errLog, matched, gaugeVars>>

\* ------------------------------------------------- events and subscriptions
defaultUserAgent == "tsuru-webhook-client/1.0"

\* The event records event.GetByID resolves the identifiers to: the odd
\* ones are successful events with one target, the even ones failed events
\* with an extra target.
EventDB(id) ==
    IF id % 2 = 1
    THEN [ID |-> id, Target |-> [Type |-> "app", Value |-> "myapp"],
          ExtraTargets |-> <<>>,
          Kind |-> [Type |-> "permission", Name |-> "app.deploy"], Error |-> ""]
    ELSE [ID |-> id, Target |-> [Type |-> "app", Value |-> "other"],
          ExtraTargets |-> <<[Target |-> [Type |-> "team", Value |-> "t1"]]>>,
          Kind |-> [Type |-> "permission", Name |-> "app.update"], Error |-> "boom"]

\* handleEvent, lines 161-162: one iteration of the loop over the extra
\* targets appends the target's type and value to the filter.
\* Faulty variant: only the type is appended.
appendTargetTypeOnly(f, t) ==
    [f EXCEPT !.TargetTypes = Append(@, t.Target.Type)]
appendTarget(f, t) ==
    [f EXCEPT !.TargetTypes = Append(@, t.Target.Type),
              !.TargetValues = Append(@, t.Target.Value)]

\* handleEvent, lines 160-163: the loop over evt.ExtraTargets.
RECURSIVE appendTargets(_, _)
appendTargets(f, ts) ==
    IF ts = <<>> THEN f ELSE appendTargets(appendTarget(f, Head(ts)), Tail(ts))

\* handleEvent, lines 154-163: the filter built for the event.
eventFilter(evt) ==
    appendTargets([TargetTypes |-> <<evt.Target.Type>>,
                   TargetValues |-> <<evt.Target.Value>>,
                   KindTypes |-> <<evt.Kind.Type>>,
                   KindNames |-> <<evt.Kind.Name>>],
                  evt.ExtraTargets)

\* handleEvent, line 164: the second argument of FindByEvent.
successOnly(evt) == evt.Error = ""

\* json.Marshal(evt): the serialization, as a sequence of tokens.
JSONMarshal(evt) == <<"{", "ID", evt.ID, "Error", evt.Error, "}">>

\* strings.NewReader(s): the reader's content.
StringsReader(s) == <<s>>

\* The events the filter is built for: any primary target, up to MaxExtra
\* extra targets, any kind, with or without an error.
EvtTargets == [Type : {"app", "team"}, Value : {"myapp", "t1"}]
EvtKinds == [Type : {"permission", "internal"}, Name : {"app.deploy"}]
FilterEvents ==
    [Target : EvtTargets,
     ExtraTargets : UNION {[1..k -> [Target : EvtTargets]] : k \in 0..MaxExtra},
     Kind : EvtKinds,
     Error : {"", "boom"}]

\* Characters of the URLs and names the model draws.  "a" stands for the
\* letters (it is a hex digit too), "1" for the digits.
URLChars == {"a", ":", "%"}
NameChars == {"a", "1", "-", "A"}
MaxURLLen == 3
MaxNameLen == 2

SeqsUpTo(S, n) == UNION {[1..k -> S] : k \in 0..n}
URLs == SeqsUpTo(URLChars, MaxURLLen)
Names == SeqsUpTo(NameChars, MaxNameLen)

\* Methods a stored subscription may carry, and strings.ToUpper on them.
Methods == {"", "post", "POST", "Put", "PATCH", "get", "DELETE", "Options", "b d"}
ToUpper(m) ==
    CASE m = "post" -> "POST"
      [] m = "Put" -> "PUT"
      [] m = "get" -> "GET"
      [] m = "Options" -> "OPTIONS"
      [] m = "b d" -> "B D"
      [] OTHER -> m

\* net/url: getScheme, on the characters of URLChars.  The scan stops at the
\* first character that is no letter: ":" ends the scheme (an error at the
\* first position), any other character means there is no scheme.
getScheme(u) ==
    LET stops == {i \in 1..Len(u) : u[i] # "a"}
        first == CHOOSE i \in stops : \A j \in stops : i <= j
    IN  IF stops = {} \/ u[first] # ":"
        THEN [err |-> "nil", scheme |-> <<>>, rest |-> u]
        ELSE IF first = 1
        THEN [err |-> "missing protocol scheme", scheme |-> <<>>, rest |-> <<>>]
        ELSE [err |-> "nil", scheme |-> SubSeq(u, 1, first - 1),
              rest |-> SubSeq(u, first + 1, Len(u))]

\* net/url: unescape(s, encodePath): every "%" must be followed by two hex
\* digits ("a" is the only hex digit of URLChars).
unescape(s) ==
    IF \E i \in 1..Len(s) :
          s[i] = "%" /\ ~(i + 2 <= Len(s) /\ s[i + 1] = "a" /\ s[i + 2] = "a")
    THEN "invalid URL escape"
    ELSE "nil"

\* net/url: Parse, on the characters of URLChars (no "/", "?" or "#", so no
\* authority, query or fragment): the error, "nil" when the URL parses.
urlParse(u) ==
    LET sch == getScheme(u)
    IN  IF sch.err # "nil" THEN sch.err
        ELSE IF sch.scheme # <<>> THEN "nil"
        ELSE IF \E i \in 1..Len(sch.rest) : sch.rest[i] = ":"
        THEN "first path segment in URL cannot contain colon"
        ELSE unescape(sch.rest)

\* The errors of the facade: nil, a *tsuruErrors.ValidationError, or an
\* error of the store.
NilErr == [type |-> "nil", msg |-> ""]
ValidationError(msg) == [type |-> "ValidationError", msg |-> msg]
StoreError(msg) == [type |-> "StoreError", msg |-> msg]

\* validateURL (lines 235-246).
validateURL(u) ==
    IF u = <<>> THEN ValidationError("webhook url must not be empty")
    ELSE IF urlParse(u) # "nil" THEN ValidationError("webhook url is not valid")
    ELSE NilErr

\* validation.EnsureValidateName, the name-syntax rule: a lower-case letter
\* followed by lower-case letters, digits and hyphens.
EnsureValidateName(name) ==
    IF /\ Len(name) >= 1
       /\ name[1] = "a"
       /\ \A i \in 1..Len(name) : name[i] \in {"a", "1", "-"}
    THEN NilErr
    ELSE ValidationError("invalid webhook name")

\* storage.Insert: the store signals a duplicate name, and else holds the
\* subscription.
storageInsert(st, name) ==
    IF name \in st
    THEN [err |-> StoreError("webhook already exists"), store |-> st]
    ELSE [err |-> NilErr, store |-> st \cup {name}]

\* Faulty variant: a Create that does not validate the URL.
createNoURLCheck(st, name, u) ==
    IF name = <<>>
    THEN [err |-> ValidationError("webhook name must not be empty"),
          inserts |-> 0, store |-> st]
    ELSE IF EnsureValidateName(name) # NilErr
    THEN [err |-> EnsureValidateName(name), inserts |-> 0, store |-> st]
    ELSE [err |-> storageInsert(st, name).err, inserts |-> 1,
          store |-> storageInsert(st, name).store]

\* Create (lines 248-261) on the store st: the error returned, the number of
\* calls of storage.Insert, and the store afterwards.
create(st, name, u) ==
    IF name = <<>>
    THEN [err |-> ValidationError("webhook name must not be empty"),
          inserts |-> 0, store |-> st]
    ELSE IF EnsureValidateName(name) # NilErr
    THEN [err |-> EnsureValidateName(name), inserts |-> 0, store |-> st]
    ELSE IF validateURL(u) # NilErr
    THEN [err |-> validateURL(u), inserts |-> 0, store |-> st]
    ELSE [err |-> storageInsert(st, name).err, inserts |-> 1,
          store |-> storageInsert(st, name).store]


\* ------------------------------------------------------ the delivery engine
\* A subscription (eventTypes.WebHook), with the fields doHook reads.
\* Headers holds the two headers doHook touches; "" is an absent header.  The
\* Headers map of a stored subscription is taken to be allocated.
HookHeaders == [CT : {"", "text/plain"}, UA : {"", "custom-agent"}]
HookURLs == {<<"a", ":", "a">>, <<":">>}
AllHooks == [Name : {"h1"}, URL : HookURLs, Method : Methods,
             Body : {"", "payload"}, Headers : HookHeaders, Insecure : BOOLEAN]

\* What the environment does to one delivery: whether json.Marshal fails,
\* whether client.Do fails, and the status of the response when it does not.
Statuses == {100, 199, 200, 201, 302, 399, 400, 404, 500, 503}
NetOutcomes == [marshalErr : BOOLEAN, transportErr : BOOLEAN, status : Statuses]

NoBody == [has |-> FALSE, data |-> <<>>]
NoReq == [Method |-> "", URL |-> <<>>, Body |-> NoBody,
          Header |-> [CT |-> "", UA |-> ""], client |-> ""]

\* Faulty variant: PATCH left out of the methods that get the event as body.
webhookBodyNoPatch(hook, evt, net) ==
    IF hook.Body # ""
    THEN [body |-> [has |-> TRUE, data |-> StringsReader(hook.Body)],
          err |-> "nil", Headers |-> hook.Headers]
    ELSE IF hook.Method # "POST" /\ hook.Method # "PUT"
    THEN [body |-> NoBody, err |-> "nil", Headers |-> hook.Headers]
    ELSE IF net.marshalErr
    THEN [body |-> NoBody, err |-> "json: marshal error",
          Headers |-> [hook.Headers EXCEPT !.CT = "application/json"]]
    ELSE [body |-> [has |-> TRUE, data |-> JSONMarshal(evt)], err |-> "nil",
          Headers |-> [hook.Headers EXCEPT !.CT = "application/json"]]

\* webhookBody (lines 177-192): the body, the error, and the headers of the
\* subscription (webhookBody sets Content-Type through the pointer it is given).
webhookBody(hook, evt, net) ==
    IF hook.Body # ""
    THEN [body |-> [has |-> TRUE, data |-> StringsReader(hook.Body)],
          err |-> "nil", Headers |-> hook.Headers]
    ELSE IF hook.Method # "POST" /\ hook.Method # "PUT" /\ hook.Method # "PATCH"
    THEN [body |-> NoBody, err |-> "nil", Headers |-> hook.Headers]
    ELSE IF net.marshalErr
    THEN [body |-> NoBody, err |-> "json: marshal error",
          Headers |-> [hook.Headers EXCEPT !.CT = "application/json"]]
    ELSE [body |-> [has |-> TRUE, data |-> JSONMarshal(evt)], err |-> "nil",
          Headers |-> [hook.Headers EXCEPT !.CT = "application/json"]]

\* net/http: NewRequest checks the method (a token) and parses the URL.
NewRequest(method, u) ==
    IF method = "B D" THEN "net/http: invalid method"
    ELSE urlParse(u)

\* Faulty variant: status 400 taken for a success.
statusErrOffByOne(status) ==
    IF status < 200 \/ status > 400
    THEN "invalid status code calling hook"
    ELSE "nil"

\* The classification of a completed response (line 228).
statusErr(status) ==
    IF status < 200 \/ status >= 400
    THEN "invalid status code calling hook"
    ELSE "nil"

\* doHook (lines 194-233) without its deferred counters: the error it
\* returns, the request it sent (sent = FALSE: none), whether it observed the
\* latency.
doHook(hook, evt, net) ==
    LET upper == ToUpper(hook.Method)
        method == IF upper = "" THEN "POST" ELSE upper
        wb == webhookBody([hook EXCEPT !.Method = method], evt, net)
        nrErr == NewRequest(method, hook.URL)
        header == IF wb.Headers.UA = ""
                  THEN [wb.Headers EXCEPT !.UA = defaultUserAgent]
                  ELSE wb.Headers
        client == IF hook.Insecure
                  THEN "Dial5Full60ClientNoKeepAliveInsecure"
                  ELSE "Dial5Full60ClientNoKeepAlive"
        req == [Method |-> method, URL |-> hook.URL, Body |-> wb.body,
                Header |-> header, client |-> client]
    IN  IF wb.err # "nil"
        THEN [err |-> wb.err, sent |-> FALSE, req |-> NoReq, observed |-> FALSE]
        ELSE IF nrErr # "nil"
        THEN [err |-> nrErr, sent |-> FALSE, req |-> NoReq, observed |-> FALSE]
        ELSE IF net.transportErr
        THEN [err |-> "transport error", sent |-> TRUE, req |-> req, observed |-> TRUE]
        ELSE [err |-> statusErr(net.status), sent |-> TRUE, req |-> req,
              observed |-> TRUE]

\* The deferred function of doHook (lines 195-200): what it adds to
\* webhooksTotal and to webhooksError.
\* Faulty variant: webhooksTotal.Inc() at the end of doHook instead of in the
\* deferred function, so that a return with an error skips it.
totalIncNoDefer(err) == IF err = "nil" THEN 1 ELSE 0
totalInc(err) == 1
errorInc(err) == IF err # "nil" THEN 1 ELSE 0


\* ------------------------------------------------------------ the dispatcher
GoodURL == <<"a", ":", "a">>
hookA == [Name |-> "h1", URL |-> GoodURL, Method |-> "post", Body |-> "",
          Headers |-> [CT |-> "", UA |-> ""], Insecure |-> FALSE]
hookB == [Name |-> "h2", URL |-> GoodURL, Method |-> "get", Body |-> "payload",
          Headers |-> [CT |-> "", UA |-> "custom-agent"], Insecure |-> TRUE]
\* What storage.FindByEvent may return: the store decides the match and the
\* order; a subscription (its name is its identity) is returned once.
HookLists == {hs \in SeqsUpTo({hookA, hookB}, MaxHooks) :
                  \A i, j \in 1..Len(hs) : hs[i].Name = hs[j].Name => i = j}

NoRes == [err |-> "nil", sent |-> FALSE, req |-> NoReq, observed |-> FALSE]
\* No call of Create, no call of doHook on its own.
NoCreate == [Name |-> <<>>, URL |-> <<>>, done |-> TRUE, err |-> NilErr,
             inserts |-> 0]
NoHook == [hook |-> hookA, evt |-> EventDB(1),
           net |-> [marshalErr |-> FALSE, transportErr |-> FALSE, status |-> 200],
           done |-> TRUE, res |-> NoRes]

\* No call of handleEvent on its own.
EmptyFilter == [TargetTypes |-> <<>>, TargetValues |-> <<>>,
                KindTypes |-> <<>>, KindNames |-> <<>>]
NoFilter == [evt |-> EventDB(1), getErr |-> FALSE, done |-> TRUE, called |-> FALSE,
             filter |-> EmptyFilter, successOnly |-> FALSE]

\* WebHookService() (lines 88-105): the channels are made, the worker started.
DispatchInit ==
    /\ evtCh = <<>>
    /\ quitCh = "open"
    /\ doneCh = "open"
    /\ webhooksQueue = 0
    /\ webhooksTotal = 0
    /\ webhooksError = 0
    /\ npc = [c \in Calls |-> "idle"]
    /\ nlate = [c \in Calls |-> FALSE]
    /\ wpc = "select"
    /\ cur = 0
    /\ hooks = <<>>
    /\ hookLog = <<>>
    /\ spc = [s \in Shutdowns |-> "idle"]
    /\ sres = [s \in Shutdowns |-> [via |-> "none", err |-> "nil"]]
    /\ ctxDone = [s \in Shutdowns |-> FALSE]
    /\ panicked = FALSE
    /\ pushed = <<>>
    /\ dequeued = <<>>
    /\ handled = <<>>
    /\ errLog = {}
    /\ attempts = 0
    /\ failed = 0
    /\ matched = 0
    /\ nlen = [c \in Calls |-> 0]
    /\ wlen = 0

Init ==
    /\ DispatchInit
    /\ store = {}
    /\ insertCalls = 0
    /\ createCall = NoCreate
    /\ hookCall = NoHook
    /\ filterCall = NoFilter

\* A panic that nothing recovers ends the process: no goroutine runs on.
Alive == ~panicked

\* A send on evtCh is ready when the buffer (line 98) has a free slot.
\* Faulty variant: a send that never waits for a free slot.
chanCanSendAlways(ch) == TRUE
chanCanSend(ch) == Len(ch) < chanBufferSize

\* A receive from evtCh takes the oldest identifier.
\* Faulty variant: a receive that takes the newest identifier.
chanRecvNewest(ch) == [val |-> ch[Len(ch)], rest |-> SubSeq(ch, 1, Len(ch) - 1)]
\* Faulty variant: a receive that empties the buffer.
chanRecvLossy(ch) == [val |-> Head(ch), rest |-> <<>>]
chanRecv(ch) == [val |-> Head(ch), rest |-> Tail(ch)]

\* The case <-s.quitCh of Notify's select (line 128) is ready when quitCh is closed.
\* Faulty variant: a Notify whose select has no quitCh case.
notifyQuitCaseMissing == FALSE
notifyQuitCase == quitCh = "closed"

\* A caller enters Notify(evtID) (line 125) and reaches the select.  The
\* calls are numbered in the order they start.
NotifyCall(c) ==
    /\ Alive
    /\ npc[c] = "idle"
    /\ IF c = 1 THEN TRUE ELSE npc[c - 1] # "idle"
    /\ npc' = [npc EXCEPT ![c] = "select"]
    /\ nlate' = [nlate EXCEPT ![c] = (quitCh = "closed")]
    /\ UNCHANGED <<evtCh, quitCh, doneCh, webhooksQueue, webhooksTotal,
                   webhooksError, workerVars, shutdownVars, histVars, panicked,
                   facadeVars, hookCall,
                   logVars, gaugeVars, filterCall>>

\* The select of Notify, case s.evtCh <- evtID (line 127): ready when the
\* channel has a free slot.  Then the gauge is set to len(s.evtCh) (line 130)
\* and Notify returns.
NotifySend(c) ==
    /\ Alive
    /\ npc[c] = "select"
    /\ chanCanSend(evtCh)
    /\ evtCh' = Append(evtCh, c)
    /\ pushed' = Append(pushed, c)
    /\ webhooksQueue' = Len(evtCh')
    /\ npc' = [npc EXCEPT ![c] = "done"]
    /\ UNCHANGED <<quitCh, doneCh, webhooksTotal, webhooksError, nlate,
                   workerVars, shutdownVars, dequeued, handled, panicked,
                   facadeVars, hookCall,
                   logVars, gaugeVars, filterCall>>

\* The select of Notify, case <-s.quitCh (line 128): ready when quitCh is
\* closed; the identifier is dropped.  Then the gauge is set (line 130) and
\* Notify returns.
NotifyQuit(c) ==
    /\ Alive
    /\ npc[c] = "select"
    /\ notifyQuitCase
    /\ webhooksQueue' = Len(evtCh)
    /\ npc' = [npc EXCEPT ![c] = "done"]
    /\ UNCHANGED <<evtCh, quitCh, doneCh, webhooksTotal, webhooksError, nlate,
                   workerVars, shutdownVars, histVars, panicked,
                   facadeVars, hookCall,
                   logVars, gaugeVars, filterCall>>

\* The select of run, case evtID := <-s.evtCh (lines 137-138): ready when
\* the channel holds an identifier; the oldest one is received and the gauge
\* is set to len(s.evtCh).
WorkerRecv ==
    /\ Alive
    /\ wpc = "select"
    /\ evtCh # <<>>
    /\ cur' = chanRecv(evtCh).val
    /\ evtCh' = chanRecv(evtCh).rest
    /\ dequeued' = Append(dequeued, cur')
    /\ webhooksQueue' = Len(evtCh')
    /\ wpc' = "handle"
    /\ UNCHANGED <<quitCh, doneCh, webhooksTotal, webhooksError, notifyVars,
                   hooks, hookLog, shutdownVars, pushed, handled, panicked,
                   facadeVars, hookCall,
                   logVars, gaugeVars, filterCall>>

\* The deferred close(s.doneCh) of run (line 134).
\* Faulty variant: run returns without closing doneCh.
runDeferredMissing == doneCh
runDeferred == "closed"

\* The case <-s.quitCh of run's select (line 143) is ready when quitCh is closed.
\* Faulty variant: a run whose select has no quitCh case.
runQuitCaseMissing == FALSE
runQuitCase == quitCh = "closed"

\* The select of run, case <-s.quitCh (lines 143-144): ready when quitCh is
\* closed; run returns and its deferred close(s.doneCh) (line 134) runs.
WorkerQuit ==
    /\ Alive
    /\ wpc = "select"
    /\ runQuitCase
    /\ wpc' = "stopped"
    /\ doneCh' = runDeferred
    /\ UNCHANGED <<evtCh, quitCh, webhooksQueue, webhooksTotal, webhooksError,
                   notifyVars, cur, hooks, hookLog, shutdownVars, histVars,
                   panicked, facadeVars, hookCall,
                   logVars, gaugeVars, filterCall>>

\* handleEvent returns to run (lines 139-142): an error is logged, the loop
\* goes on.  The locals of handleEvent are gone.
BackToSelect ==
    /\ wpc' = "select"
    /\ hooks' = <<>>
    /\ hookLog' = <<>>
    /\ handled' = Append(handled, cur)

\* handleEvent goes on to (the next iteration of) its loop over the hooks hs,
\* having called doHook for the hooks of log.
NextHook(hs, log) ==
    /\ wpc' = "hook"
    /\ hooks' = hs
    /\ hookLog' = log
    /\ UNCHANGED handled

\* Faulty variant: run returns when handleEvent returned an error.
runOnErrorReturn ==
    /\ wpc' = "stopped"
    /\ hooks' = <<>>
    /\ hookLog' = <<>>
    /\ handled' = Append(handled, cur)
    /\ errLog' = errLog \cup {cur}

\* run, lines 139-142: handleEvent returned an error; it is logged and the
\* loop goes on.
runOnError ==
    /\ BackToSelect
    /\ errLog' = errLog \cup {cur}

\* handleEvent up to the loop over the hooks (lines 150-167): event.GetByID
\* or storage.FindByEvent fails, and handleEvent returns the error.
WorkerLookupFail ==
    /\ Alive
    /\ wpc = "handle"
    /\ runOnError
    /\ UNCHANGED <<evtCh, quitCh, doneCh, webhooksQueue, webhooksTotal,
                   webhooksError, notifyVars, cur, shutdownVars, pushed,
                   dequeued, panicked, facadeVars, hookCall,
                   attempts, failed, matched, gaugeVars, filterCall>>

\* handleEvent up to the loop over the hooks (lines 150-167): the event is
\* resolved and the store returns hs.
WorkerLookup(hs) ==
    /\ Alive
    /\ wpc = "handle"
    /\ IF hs = <<>>
       THEN BackToSelect
       ELSE NextHook(hs, <<>>)
    /\ matched' = matched + Len(hs)
    /\ UNCHANGED <<evtCh, quitCh, doneCh, webhooksQueue, webhooksTotal,
                   webhooksError, notifyVars, cur, shutdownVars, pushed,
                   dequeued, panicked, facadeVars, hookCall,
                   errLog, attempts, failed, gaugeVars, filterCall>>

\* Faulty variant: handleEvent returns at the first doHook error.
AfterHookAbort(h, err) ==
    IF Len(hookLog) + 1 = Len(hooks) \/ err # "nil"
    THEN BackToSelect
    ELSE NextHook(hooks, Append(hookLog, h.Name))

\* Faulty variant: a doHook that failed is called again for the same hook.
AfterHookRetry(h, err) ==
    IF err # "nil"
    THEN NextHook(hooks, hookLog)
    ELSE IF Len(hookLog) + 1 = Len(hooks)
    THEN BackToSelect
    ELSE NextHook(hooks, Append(hookLog, h.Name))

\* Faulty variant: handleEvent leaves the loop when quitCh is closed.
AfterHookQuit(h, err) ==
    IF Len(hookLog) + 1 = Len(hooks) \/ quitCh = "closed"
    THEN BackToSelect
    ELSE NextHook(hooks, Append(hookLog, h.Name))

\* After doHook returned err for hook h, the one at position
\* Len(hookLog) + 1 (lines 168-174): the error is logged and the loop goes to
\* the next hook; after the last one handleEvent returns nil.
AfterHook(h, err) ==
    IF Len(hookLog) + 1 = Len(hooks)
    THEN BackToSelect
    ELSE NextHook(hooks, Append(hookLog, h.Name))

\* One iteration of the loop over the hooks (lines 168-173): doHook for the
\* next hook, with its deferred counters.
WorkerDoHook(net) ==
    /\ Alive
    /\ wpc = "hook"
    /\ LET h == hooks[Len(hookLog) + 1]
           r == doHook(h, EventDB(cur), net)
       IN  /\ webhooksTotal' = webhooksTotal + totalInc(r.err)
           /\ webhooksError' = webhooksError + errorInc(r.err)
           /\ attempts' = attempts + 1
           /\ failed' = failed + (IF r.err # "nil" THEN 1 ELSE 0)
           /\ AfterHook(h, r.err)
    /\ UNCHANGED <<evtCh, quitCh, doneCh, webhooksQueue, notifyVars, cur,
                   shutdownVars, pushed, dequeued, panicked, facadeVars,
                   hookCall,
                   errLog, matched, gaugeVars, filterCall>>

\* ------------------------------------------------------------------ Shutdown
\* ctx.Err(): non-nil once the context is done.
CtxErr(done) == IF done THEN "context deadline exceeded" ELSE "nil"

\* The deadline of the context of Shutdown call s passes, or it is cancelled.
\* Shutdown looks at the context in its select only, so a context that was
\* done before the call behaves as one that is done right after line 116.
CtxExpire(s) ==
    /\ Alive
    /\ spc[s] = "wait"
    /\ ~ctxDone[s]
    /\ ctxDone' = [ctxDone EXCEPT ![s] = TRUE]
    /\ UNCHANGED <<evtCh, quitCh, doneCh, webhooksQueue, webhooksTotal,
                   webhooksError, notifyVars, workerVars, spc, sres, histVars,
                   panicked, facadeVars, hookCall,
                   logVars, gaugeVars, filterCall>>

\* Shutdown, lines 115-116: close(s.quitCh) on the open channel.  The calls
\* are numbered in the order they start.
ShutdownClose(s) ==
    /\ Alive
    /\ spc[s] = "idle"
    /\ IF s = 1 THEN TRUE ELSE spc[s - 1] # "idle"
    /\ quitCh = "open"
    /\ quitCh' = "closed"
    /\ spc' = [spc EXCEPT ![s] = "wait"]
    /\ UNCHANGED <<evtCh, doneCh, webhooksQueue, webhooksTotal, webhooksError,
                   notifyVars, workerVars, sres, ctxDone, histVars, panicked,
                   facadeVars, hookCall,
                   logVars, gaugeVars, filterCall>>

\* close of a closed channel (line 116) panics: Shutdown call s returns
\* nothing and the process dies.
\* Faulty variant: a close that does nothing on a closed channel.
closeClosedNoop(s) ==
    /\ panicked' = panicked
    /\ spc' = [spc EXCEPT ![s] = "wait"]
closeClosed(s) ==
    /\ panicked' = TRUE
    /\ spc' = [spc EXCEPT ![s] = "panic"]

\* Shutdown, lines 115-116: close(s.quitCh) on the closed channel panics.
ShutdownPanic(s) ==
    /\ Alive
    /\ spc[s] = "idle"
    /\ IF s = 1 THEN TRUE ELSE spc[s - 1] # "idle"
    /\ quitCh = "closed"
    /\ closeClosed(s)
    /\ UNCHANGED <<evtCh, quitCh, doneCh, webhooksQueue, webhooksTotal,
                   webhooksError, notifyVars, workerVars, sres, ctxDone,
                   histVars, facadeVars, hookCall,
                   logVars, gaugeVars, filterCall>>

\* The case <-s.doneCh of Shutdown's select (line 118) is ready when doneCh is closed.
\* Faulty variant: Shutdown waits on quitCh instead of doneCh.
shutdownDoneCaseOnQuit == quitCh = "closed"
shutdownDoneCase == doneCh = "closed"

\* The select of Shutdown, case <-s.doneCh (lines 118, 122): returns nil.
ShutdownDone(s) ==
    /\ Alive
    /\ spc[s] = "wait"
    /\ shutdownDoneCase
    /\ spc' = [spc EXCEPT ![s] = "done"]
    /\ sres' = [sres EXCEPT ![s] = [via |-> "doneCh", err |-> "nil"]]
    /\ UNCHANGED <<evtCh, quitCh, doneCh, webhooksQueue, webhooksTotal,
                   webhooksError, notifyVars, workerVars, ctxDone, histVars,
                   panicked, facadeVars, hookCall,
                   logVars, gaugeVars, filterCall>>

\* The select of Shutdown, case <-doneCtx (lines 119-120): returns ctx.Err().
ShutdownCtx(s) ==
    /\ Alive
    /\ spc[s] = "wait"
    /\ ctxDone[s]
    /\ spc' = [spc EXCEPT ![s] = "done"]
    /\ sres' = [sres EXCEPT ![s] = [via |-> "ctx", err |-> CtxErr(ctxDone[s])]]
    /\ UNCHANGED <<evtCh, quitCh, doneCh, webhooksQueue, webhooksTotal,
                   webhooksError, notifyVars, workerVars, ctxDone, histVars,
                   panicked, facadeVars, hookCall,
                   logVars, gaugeVars, filterCall>>

Next ==
    \/ \E c \in Calls : NotifyCall(c)
    \/ \E c \in Calls : NotifySend(c)
    \/ \E c \in Calls : NotifyQuit(c)
    \/ WorkerRecv
    \/ WorkerQuit
    \/ WorkerLookupFail
    \/ \E hs \in HookLists : WorkerLookup(hs)
    \/ \E net \in NetOutcomes : WorkerDoHook(net)
    \/ \E s \in Shutdowns : CtxExpire(s)
    \/ \E s \in Shutdowns : ShutdownClose(s)
    \/ \E s \in Shutdowns : ShutdownPanic(s)
    \/ \E s \in Shutdowns : ShutdownDone(s)
    \/ \E s \in Shutdowns : ShutdownCtx(s)

Spec == Init /\ [][Next]_vars

\* The service as the process uses it: shutdown.Register(s) (line 103) has
\* Shutdown called once, so close(s.quitCh) never panics.  A goroutine whose
\* select has a ready case goes on (the Go scheduler starves no runnable
\* goroutine), and every lookup and every webhook call returns (the clients of
\* line 217 time out).
FairNext ==
    \/ \E c \in Calls : NotifyCall(c)
    \/ \E c \in Calls : NotifySend(c)
    \/ \E c \in Calls : NotifyQuit(c)
    \/ WorkerRecv
    \/ WorkerQuit
    \/ WorkerLookupFail
    \/ \E hs \in HookLists : WorkerLookup(hs)
    \/ \E net \in NetOutcomes : WorkerDoHook(net)
    \/ \E s \in Shutdowns : CtxExpire(s)
    \/ \E s \in Shutdowns : ShutdownClose(s)
    \/ \E s \in Shutdowns : ShutdownDone(s)
    \/ \E s \in Shutdowns : ShutdownCtx(s)

Fairness ==
    /\ \A c \in Calls : WF_vars(NotifySend(c) \/ NotifyQuit(c))
    /\ WF_vars(WorkerRecv \/ WorkerQuit)
    /\ WF_vars(WorkerLookupFail \/ \E hs \in HookLists : WorkerLookup(hs))
    /\ WF_vars(\E net \in NetOutcomes : WorkerDoHook(net))
    /\ \A s \in Shutdowns : WF_vars(ShutdownDone(s) \/ ShutdownCtx(s))

FairSpec == Init /\ [][FairNext]_vars /\ Fairness

\* ---------------------------------------------- the gauge, step by step
\* The dispatcher with webhooksQueue.Set(float64(len(s.evtCh))) (lines 130
\* and 138) as the steps it is made of: the select takes its case, len is
\* evaluated, Set is called.  Other goroutines run in between.

\* The select of Notify, case s.evtCh <- evtID (line 127).
NotifySendCase(c) ==
    /\ Alive
    /\ npc[c] = "select"
    /\ chanCanSend(evtCh)
    /\ evtCh' = Append(evtCh, c)
    /\ pushed' = Append(pushed, c)
    /\ npc' = [npc EXCEPT ![c] = "len"]
    /\ UNCHANGED <<quitCh, doneCh, webhooksQueue, webhooksTotal, webhooksError,
                   nlate, workerVars, shutdownVars, dequeued, handled, panicked,
                   facadeVars, hookCall, logVars, gaugeVars, filterCall>>

\* The select of Notify, case <-s.quitCh (line 128).
NotifyQuitCase(c) ==
    /\ Alive
    /\ npc[c] = "select"
    /\ notifyQuitCase
    /\ npc' = [npc EXCEPT ![c] = "len"]
    /\ UNCHANGED <<evtCh, quitCh, doneCh, webhooksQueue, webhooksTotal,
                   webhooksError, nlate, workerVars, shutdownVars, histVars,
                   panicked, facadeVars, hookCall, logVars, gaugeVars,
                   filterCall>>

\* Notify, line 130: len(s.evtCh) is evaluated.
NotifyLen(c) ==
    /\ Alive
    /\ npc[c] = "len"
    /\ nlen' = [nlen EXCEPT ![c] = Len(evtCh)]
    /\ npc' = [npc EXCEPT ![c] = "set"]
    /\ UNCHANGED <<evtCh, quitCh, doneCh, webhooksQueue, webhooksTotal,
                   webhooksError, nlate, workerVars, shutdownVars, histVars,
                   panicked, facadeVars, hookCall, logVars, wlen, filterCall>>

\* Notify, line 130: webhooksQueue.Set with the length evaluated; Notify
\* returns.
NotifySet(c) ==
    /\ Alive
    /\ npc[c] = "set"
    /\ webhooksQueue' = nlen[c]
    /\ nlen' = [nlen EXCEPT ![c] = 0]
    /\ npc' = [npc EXCEPT ![c] = "done"]
    /\ UNCHANGED <<evtCh, quitCh, doneCh, webhooksTotal, webhooksError, nlate,
                   workerVars, shutdownVars, histVars, panicked, facadeVars,
                   hookCall, logVars, wlen, filterCall>>

\* The select of run, case evtID := <-s.evtCh (line 137).
WorkerRecvCase ==
    /\ Alive
    /\ wpc = "select"
    /\ evtCh # <<>>
    /\ cur' = chanRecv(evtCh).val
    /\ evtCh' = chanRecv(evtCh).rest
    /\ dequeued' = Append(dequeued, cur')
    /\ wpc' = "len"
    /\ UNCHANGED <<quitCh, doneCh, webhooksQueue, webhooksTotal, webhooksError,
                   notifyVars, hooks, hookLog, shutdownVars, pushed, handled,
                   panicked, facadeVars, hookCall, logVars, gaugeVars,
                   filterCall>>

\* run, line 138: len(s.evtCh) is evaluated.
WorkerLen ==
    /\ Alive
    /\ wpc = "len"
    /\ wlen' = Len(evtCh)
    /\ wpc' = "set"
    /\ UNCHANGED <<evtCh, quitCh, doneCh, webhooksQueue, webhooksTotal,
                   webhooksError, notifyVars, cur, hooks, hookLog, shutdownVars,
                   histVars, panicked, facadeVars, hookCall, logVars, nlen,
                   filterCall>>

\* run, lines 138-139: webhooksQueue.Set with the length evaluated, then
\* handleEvent is called.
WorkerSet ==
    /\ Alive
    /\ wpc = "set"
    /\ webhooksQueue' = wlen
    /\ wlen' = 0
    /\ wpc' = "handle"
    /\ UNCHANGED <<evtCh, quitCh, doneCh, webhooksTotal, webhooksError,
                   notifyVars, cur, hooks, hookLog, shutdownVars, histVars,
                   panicked, facadeVars, hookCall, logVars, nlen, filterCall>>

GaugeNext ==
    \/ \E c \in GaugeCalls : NotifyCall(c)
    \/ \E c \in GaugeCalls : NotifySendCase(c)
    \/ \E c \in GaugeCalls : NotifyQuitCase(c)
    \/ \E c \in GaugeCalls : NotifyLen(c)
    \/ \E c \in GaugeCalls : NotifySet(c)
    \/ WorkerRecvCase
    \/ WorkerLen
    \/ WorkerSet
    \/ WorkerQuit
    \/ WorkerLookupFail
    \/ \E hs \in HookLists : WorkerLookup(hs)
    \/ \E net \in NetOutcomes : WorkerDoHook(net)
    \/ \E s \in Shutdowns : CtxExpire(s)
    \/ \E s \in Shutdowns : ShutdownClose(s)
    \/ \E s \in Shutdowns : ShutdownPanic(s)
    \/ \E s \in Shutdowns : ShutdownDone(s)
    \/ \E s \in Shutdowns : ShutdownCtx(s)

GaugeSpec == Init /\ [][GaugeNext]_vars

\* ------------------------------------------------------------------- claims
IsPrefix(p, q) == Len(p) <= Len(q) /\ SubSeq(q, 1, Len(p)) = p
Range(q) == {q[i] : i \in 1..Len(q)}
HookNames(hs) == [i \in 1..Len(hs) |-> hs[i].Name]

\* C1: once quitCh is closed, every Notify call that is at its select
\* (blocked on a full queue or not, the worker stopped or not) returns.
C1_NotifyReturnsAfterQuit ==
    \A c \in Calls : (npc[c] = "select" /\ quitCh = "closed") ~> (npc[c] = "done")

\* A call returned without pushing while the worker had stopped and the
\* queue was full.
C1_Witness ==
    \E c \in Calls :
        /\ npc[c] = "done"
        /\ c \notin Range(pushed)
        /\ wpc = "stopped"
        /\ Len(evtCh) = chanBufferSize

\* C2: the identifier of a Notify call that started after quitCh was closed
\* is never received by the worker.
C2_LateNeverDelivered ==
    \A i \in 1..Len(dequeued) : ~nlate[dequeued[i]]

\* C3: the worker receives the identifiers in the order their pushes
\* completed, and starts one only when the one before is finished: the
\* received identifiers are a prefix of the completed
\* pushes, the finished ones a prefix of the received ones, at most one
\* behind.
C3_FIFO ==
    /\ IsPrefix(dequeued, pushed)
    /\ IsPrefix(handled, dequeued)
    /\ Len(dequeued) - Len(handled) = (IF wpc \in {"handle", "hook"} THEN 1 ELSE 0)

\* The worker finished one identifier while two others wait, pushed by
\* concurrent calls in the order opposite to the one the calls started in.
C3_Witness ==
    /\ Len(handled) = 1
    /\ Len(evtCh) = 2
    /\ evtCh[1] > evtCh[2]

\* C4: Shutdown returns nil only by the case <-s.doneCh, when the worker has
\* stopped and doneCh is closed, and from then on nothing is received,
\* handled or called; by the case <-doneCtx it returns the non-nil ctx.Err().
C4_ShutdownResult ==
    /\ [](\A s \in Shutdowns : spc[s] = "done" =>
            /\ sres[s].err = "nil" <=> sres[s].via = "doneCh"
            /\ sres[s].err = "nil" => wpc = "stopped" /\ doneCh = "closed"
            /\ sres[s].via = "ctx" => sres[s].err # "nil" /\ ctxDone[s])
    /\ [][(\E s \in Shutdowns : spc[s] = "done" /\ sres[s].err = "nil") =>
            /\ dequeued' = dequeued
            /\ handled' = handled
            /\ evtCh' = evtCh \/ Len(evtCh') > Len(evtCh)
            /\ webhooksTotal' = webhooksTotal
            /\ wpc' = "stopped"]_vars

\* Shutdown returned nil and an identifier is left in the queue.
C4_Witness ==
    \E s \in Shutdowns :
        /\ spc[s] = "done"
        /\ sres[s].err = "nil"
        /\ evtCh # <<>>

\* C5: when Shutdown has returned the context's error while the worker was
\* handling an identifier, the worker goes on: it leaves the loop over the
\* hooks only after the last hook, and it ends stopped with doneCh closed.
C5_WorkerOutlivesShutdown ==
    /\ [][wpc = "hook" /\ wpc' # "hook" =>
            wpc' = "select" /\ Len(hookLog) + 1 = Len(hooks)]_vars
    /\ (\E s \in Shutdowns :
            /\ spc[s] = "done"
            /\ sres[s].via = "ctx"
            /\ wpc \in {"handle", "hook"})
       ~> (wpc = "stopped" /\ doneCh = "closed")

\* Shutdown returned the context's error in the middle of a batch of hooks.
C5_Witness ==
    \E s \in Shutdowns :
        /\ spc[s] = "done"
        /\ sres[s].via = "ctx"
        /\ sres[s].err # "nil"
        /\ wpc = "hook"
        /\ hookLog # <<>>
        /\ doneCh = "open"

\* C6: the queue never holds more than chanBufferSize identifiers; a Notify
\* call at its select while the queue is full and quitCh open stays there;
\* and the queue shrinks only by the worker receiving.
C6_Bounded ==
    /\ [](Len(evtCh) <= chanBufferSize)
    /\ [][\A c \in Calls :
            npc[c] = "select" /\ Len(evtCh) = chanBufferSize /\ quitCh = "open"
            => npc'[c] = "select" /\ c \notin Range(pushed')]_vars
    /\ [][Len(evtCh') < Len(evtCh) =>
            wpc = "select" /\ Len(dequeued') = Len(dequeued) + 1]_vars

\* A Notify call is blocked: the queue is full and quitCh is open.
C6_Witness ==
    \E c \in Calls :
        /\ npc[c] = "select"
        /\ Len(evtCh) = chanBufferSize
        /\ quitCh = "open"

\* C7: a doHook that fails (the error counter goes up) leaves the worker in
\* its loop: it goes to the next hook of the list, in the list's order, or,
\* after the last hook, back to the select of run, where a queued identifier
\* can be received; no Notify call and no channel is touched.
C7_FailureDoesNotStop ==
    /\ [][wpc = "hook" /\ webhooksError' # webhooksError =>
            /\ IF Len(hookLog) + 1 < Len(hooks)
               THEN /\ wpc' = "hook"
                    /\ hooks' = hooks
                    /\ hookLog' = Append(hookLog, hooks[Len(hookLog) + 1].Name)
               ELSE wpc' = "select"
            /\ UNCHANGED <<notifyVars, evtCh, quitCh, doneCh, pushed>>]_vars
    /\ [](wpc = "hook" => /\ Len(hookLog) < Len(hooks)
                          /\ IsPrefix(hookLog, HookNames(hooks)))
    /\ [](Alive /\ wpc = "select" /\ evtCh # <<>> => ENABLED WorkerRecv)

\* The first hook of a batch failed and the worker is at the second one.
C7_Witness ==
    /\ wpc = "hook"
    /\ Len(hookLog) = 1
    /\ webhooksTotal = 1
    /\ webhooksError = 1
    /\ quitCh = "open"

\* C12: webhooksTotal is the number of calls of doHook that returned,
\* webhooksError the number of those that returned an error, so the error
\* counter never exceeds the total; a call of doHook adds one to the total
\* whatever its outcome and, when it returns nil, leaves the error counter
\* as it is; nothing else touches the counters.
C12_Counters ==
    /\ [](/\ webhooksTotal = attempts
          /\ webhooksError = failed
          /\ webhooksError <= webhooksTotal)
    /\ [][IF attempts' # attempts
          THEN /\ attempts' = attempts + 1
               /\ webhooksTotal' = webhooksTotal + 1
               /\ failed' = failed => webhooksError' = webhooksError
               /\ failed' # failed => webhooksError' = webhooksError + 1
          ELSE /\ webhooksTotal' = webhooksTotal
               /\ webhooksError' = webhooksError]_vars

\* Four calls of doHook returned, over two identifiers: two with an error,
\* two without.
C12_Witness ==
    /\ attempts = 4
    /\ failed = 2
    /\ webhooksTotal = 4
    /\ webhooksError = 2
    /\ Len(handled) = 2

\* C13: once quitCh is closed, the worker at the select of its loop receives
\* no further identifier: its next step is to stop.
C13_NoRecvAfterQuit ==
    [][quitCh = "closed" /\ wpc = "select" =>
           /\ dequeued' = dequeued
           /\ wpc' \in {"select", "stopped"}]_vars

C15_BatchNotInterrupted ==
    /\ [][quitCh = "closed" /\ wpc \in {"handle", "hook"} =>
            /\ wpc' # "stopped"
            /\ doneCh' = "open"]_vars
    /\ [][quitCh = "closed" /\ wpc = "hook" /\ <<wpc, hookLog>>' # <<wpc, hookLog>> =>
            /\ attempts' = attempts + 1
            /\ IF Len(hookLog) + 1 < Len(hooks)
               THEN /\ wpc' = "hook"
                    /\ hooks' = hooks
                    /\ hookLog' = Append(hookLog, hooks[Len(hookLog) + 1].Name)
               ELSE /\ wpc' = "select"
                    /\ handled' = Append(handled, cur)]_vars
    /\ \A c \in Calls :
          (quitCh = "closed" /\ cur = c /\ wpc \in {"handle", "hook"})
              ~> (c \in Range(handled))

\* Shutdown waits, quitCh is closed, and the worker is between the first and
\* the second hook of a batch, doneCh still open.
C15_Witness ==
    /\ quitCh = "closed"
    /\ spc[1] = "wait"
    /\ wpc = "hook"
    /\ Len(hooks) = 2
    /\ Len(hookLog) = 1
    /\ attempts = 1
    /\ doneCh = "open"

\* C16: run logs an error of handleEvent only for the identifier in hand and
\* only when no hook was called for it: no counter moves, no channel is
\* touched, the worker is back at its select, where a queued identifier can
\* be received.
C16_LookupFailure ==
    /\ [][errLog' # errLog =>
            /\ wpc = "handle"
            /\ errLog' = errLog \cup {cur}
            /\ wpc' = "select"
            /\ handled' = Append(handled, cur)
            /\ UNCHANGED <<attempts, matched, webhooksTotal, webhooksError,
                           evtCh, quitCh, doneCh>>]_vars
    /\ [](wpc = "handle" => hooks = <<>> /\ hookLog = <<>>)
    /\ [](errLog \subseteq Range(handled))
    /\ [](Alive /\ cur \in errLog /\ wpc = "select" /\ evtCh # <<>>
            => ENABLED WorkerRecv)

\* The lookup for the first identifier failed, and two hooks were called
\* for the second one.
C16_Witness ==
    /\ errLog = {1}
    /\ handled = <<1, 2>>
    /\ attempts = 2
    /\ wpc = "select"

\* C17: doHook is called once for every subscription FindByEvent returned:
\* the calls made are the subscriptions returned so far less those of the
\* batch under way still to come; every call, failed or not, moves the loop
\* to the next hook or ends the batch; and an identifier received before
\* never enters the queue again.
C17_NoRetry ==
    /\ [](attempts = matched - (IF wpc = "hook" THEN Len(hooks) - Len(hookLog)
                                                 ELSE 0))
    /\ [][attempts' # attempts =>
            /\ wpc = "hook"
            /\ attempts' = attempts + 1
            /\ IF Len(hookLog) + 1 < Len(hooks)
               THEN /\ hooks' = hooks
                    /\ hookLog' = Append(hookLog, hooks[Len(hookLog) + 1].Name)
               ELSE wpc' = "select"]_vars
    /\ [][\A c \in Range(evtCh') :
              c \in Range(evtCh) \/ c \notin Range(dequeued)]_vars
    /\ [](Range(evtCh) \cap Range(dequeued) = {})

\* Both hooks of a batch failed, each called once, and the batch is over.
C17_Witness ==
    /\ handled = <<1>>
    /\ matched = 2
    /\ attempts = 2
    /\ failed = 2
    /\ wpc = "select"

\* C18: whenever no Notify call is under way and the worker is not between
\* its receive and its Set, webhooksQueue is the number of identifiers in
\* evtCh.
C18_GaugeCurrent ==
    (/\ \A c \in GaugeCalls : npc[c] \in {"idle", "done"}
     /\ wpc \notin {"len", "set"})
        => webhooksQueue = Len(evtCh)

\* C19: the Shutdown call that finds quitCh open closes it and goes on to
\* wait; one that finds it closed panics: it returns nothing and the process
\* is dead, nothing moves any more.  So the first call never panics and a
\* second call always does, the worker stopped or not.
C19_SecondShutdownPanics ==
    /\ [][\A s \in Shutdowns : spc[s] = "idle" /\ spc'[s] # "idle" =>
            IF quitCh = "open"
            THEN /\ quitCh' = "closed"
                 /\ spc'[s] = "wait"
                 /\ ~panicked'
            ELSE /\ spc'[s] = "panic"
                 /\ panicked'
                 /\ sres' = sres]_vars
    /\ [](/\ spc[1] # "panic"
          /\ spc[2] # "idle" => /\ spc[2] = "panic"
                                /\ panicked
                                /\ sres[2].via = "none")
    /\ [][panicked => FALSE]_vars

\* The first Shutdown returned nil, the worker has stopped, and a second
\* Shutdown panicked.
C19_Witness ==
    /\ spc[1] = "done"
    /\ sres[1].err = "nil"
    /\ wpc = "stopped"
    /\ spc[2] = "panic"
    /\ panicked

\* C20: while quitCh is open a Notify call that returned has pushed its
\* identifier, and the identifier ends handled unless quitCh is closed
\* first; no identifier is received twice, and none that was not pushed.
C20_NoLossNoDup ==
    /\ \A c \in Calls :
          (npc[c] = "done") ~> (c \in Range(handled) \/ quitCh = "closed")
    /\ [](quitCh = "open" =>
            \A c \in Calls : npc[c] = "done" => c \in Range(pushed))
    /\ [](\A i, j \in 1..Len(dequeued) : dequeued[i] = dequeued[j] => i = j)
    /\ [](Range(dequeued) \subseteq Range(pushed))

\* Without a Shutdown, every Notify call returned and every identifier was
\* handled.
C20_Witness ==
    /\ quitCh = "open"
    /\ \A c \in Calls : npc[c] = "done"
    /\ Len(handled) = MaxNotify
    /\ Range(handled) = Calls


\* ------------------------------------------------------- the facade: Create
\* The names a store may hold: those Create lets through.
ValidNames == {n \in Names : n # <<>> /\ EnsureValidateName(n) = NilErr}

\* A store with at most one subscription, and one call of Create to make.
CreateInit ==
    /\ DispatchInit
    /\ store \in {{}} \cup {{n} : n \in ValidNames}
    /\ insertCalls = 0
    /\ createCall \in [Name : Names, URL : URLs, done : {FALSE}, err : {NilErr},
                       inserts : {0}]
    /\ hookCall = NoHook
    /\ filterCall = NoFilter

\* s.Create(w) (lines 248-261) for the call createCall.
Create ==
    /\ ~createCall.done
    /\ LET r == create(store, createCall.Name, createCall.URL)
       IN  /\ createCall' = [createCall EXCEPT !.done = TRUE, !.err = r.err,
                                               !.inserts = r.inserts]
           /\ store' = r.store
           /\ insertCalls' = insertCalls + r.inserts
    /\ UNCHANGED <<dispatchVars, webhooksTotal, webhooksError, attempts, failed,
                   hookCall, filterCall>>

CreateSpec == CreateInit /\ [][Create]_vars

\* --------------------------------------------------- the delivery engine alone
\* One call of doHook to make, for any subscription, event and outcome of
\* the network.
HookInit ==
    /\ DispatchInit
    /\ store = {}
    /\ insertCalls = 0
    /\ createCall = NoCreate
    /\ hookCall \in [hook : AllHooks, evt : {EventDB(id) : id \in Calls},
                     net : NetOutcomes, done : {FALSE}, res : {NoRes}]
    /\ filterCall = NoFilter

\* s.doHook(hook, evt) (lines 194-233) for the call hookCall, with its
\* deferred counters.
DoHookCall ==
    /\ ~hookCall.done
    /\ LET r == doHook(hookCall.hook, hookCall.evt, hookCall.net)
       IN  /\ hookCall' = [hookCall EXCEPT !.done = TRUE, !.res = r]
           /\ webhooksTotal' = webhooksTotal + totalInc(r.err)
           /\ webhooksError' = webhooksError + errorInc(r.err)
           /\ attempts' = attempts + 1
           /\ failed' = failed + (IF r.err # "nil" THEN 1 ELSE 0)
    /\ UNCHANGED <<dispatchVars, facadeVars, filterCall>>

HookSpec == HookInit /\ [][DoHookCall]_vars

\* ------------------------------------------------- the filter matcher alone
\* One call of handleEvent to make, for any event; event.GetByID fails or not.
FilterInit ==
    /\ DispatchInit
    /\ store = {}
    /\ insertCalls = 0
    /\ createCall = NoCreate
    /\ hookCall = NoHook
    /\ filterCall \in [evt : FilterEvents, getErr : BOOLEAN, done : {FALSE},
                       called : {FALSE}, filter : {EmptyFilter},
                       successOnly : {FALSE}]

\* handleEvent up to the call of s.storage.FindByEvent (lines 150-164) for
\* the call filterCall: when event.GetByID fails the store is not asked.
FindByEventCall ==
    /\ ~filterCall.done
    /\ filterCall' =
          IF filterCall.getErr
          THEN [filterCall EXCEPT !.done = TRUE]
          ELSE [filterCall EXCEPT !.done = TRUE, !.called = TRUE,
                                  !.filter = eventFilter(filterCall.evt),
                                  !.successOnly = successOnly(filterCall.evt)]
    /\ UNCHANGED <<dispatchVars, webhooksTotal, webhooksError, attempts, failed,
                   facadeVars, hookCall>>

FilterSpec == FilterInit /\ [][FindByEventCall]_vars

\* C8: a Create whose name is empty or breaks the name rule, or whose URL is
\* empty or does not parse, returns a ValidationError, calls Insert not once
\* and leaves the store as it was; any other Create calls Insert once and
\* returns what Insert returned.
C8_Rejected(name, u) ==
    \/ name = <<>>
    \/ EnsureValidateName(name) # NilErr
    \/ u = <<>>
    \/ urlParse(u) # "nil"

C8_CreateValidates ==
    [][~createCall.done /\ createCall'.done =>
        IF C8_Rejected(createCall.Name, createCall.URL)
        THEN /\ createCall'.err.type = "ValidationError"
             /\ createCall'.inserts = 0
             /\ insertCalls' = insertCalls
             /\ store' = store
        ELSE /\ createCall'.inserts = 1
             /\ insertCalls' = insertCalls + 1
             /\ createCall'.err = storageInsert(store, createCall.Name).err
             /\ store' = store \cup {createCall.Name}]_vars

\* A Create with a good name and a URL that does not parse was refused.
C8_Witness ==
    /\ createCall.done
    /\ EnsureValidateName(createCall.Name) = NilErr
    /\ createCall.URL = <<"a", "%">>
    /\ createCall.err.type = "ValidationError"
    /\ createCall.inserts = 0

\* C9: a delivery whose request got a response is a success exactly when
\* 200 <= status < 400; one whose request met a transport error is a failure.
C9_Classification ==
    hookCall.done /\ hookCall.res.sent =>
        IF hookCall.net.transportErr
        THEN hookCall.res.err # "nil"
        ELSE hookCall.res.err = "nil" <=>
                (200 <= hookCall.net.status /\ hookCall.net.status < 400)

\* A response with status 400 was classified as a failure.
C9_Witness ==
    /\ hookCall.done
    /\ hookCall.res.sent
    /\ ~hookCall.net.transportErr
    /\ hookCall.net.status = 400
    /\ hookCall.res.err # "nil"

\* C11: the filter passed to the store for an event with k extra targets has
\* k+1 target types and k+1 target values, the primary target first and then
\* the extra targets in their order, type and value of one target at the same
\* index; it has the one kind type and the one kind name of the event; and
\* successOnly is true exactly when the event's Error is empty.
C11_FilterConstruction ==
    filterCall.called =>
        LET e == filterCall.evt
            f == filterCall.filter
            k == Len(e.ExtraTargets)
        IN  /\ Len(f.TargetTypes) = k + 1
            /\ Len(f.TargetValues) = k + 1
            /\ f.TargetTypes[1] = e.Target.Type
            /\ f.TargetValues[1] = e.Target.Value
            /\ \A i \in 1..k :
                    /\ f.TargetTypes[i + 1] = e.ExtraTargets[i].Target.Type
                    /\ f.TargetValues[i + 1] = e.ExtraTargets[i].Target.Value
            /\ f.KindTypes = <<e.Kind.Type>>
            /\ f.KindNames = <<e.Kind.Name>>
            /\ filterCall.successOnly <=> (e.Error = "")

\* The store was asked for a failed event with two different extra targets.
C11_Witness ==
    /\ filterCall.called
    /\ filterCall.evt.Error # ""
    /\ Len(filterCall.evt.ExtraTargets) = 2
    /\ filterCall.evt.ExtraTargets[1] # filterCall.evt.ExtraTargets[2]
    /\ Len(filterCall.filter.TargetValues) = 3
    /\ ~filterCall.successOnly

\* C10: the body of the request sent: the literal Body when there is one,
\* whatever the method; else, for the methods that upper-case to POST, PUT or
\* PATCH and for the empty method, the serialized event, with Content-Type
\* application/json; else none.
C10_JSONMethod(m) == m \in {"", "post", "POST", "Put", "PATCH"}

C10_BodySelection ==
    hookCall.done /\ hookCall.res.sent =>
        LET h == hookCall.hook
            req == hookCall.res.req
        IN  IF h.Body # ""
            THEN req.Body = [has |-> TRUE, data |-> <<h.Body>>]
            ELSE IF C10_JSONMethod(h.Method)
            THEN /\ req.Body = [has |-> TRUE, data |-> JSONMarshal(hookCall.evt)]
                 /\ req.Header.CT = "application/json"
                 /\ req.Method \in {"POST", "PUT", "PATCH"}
            ELSE /\ ~req.Body.has
                 /\ req.Method \notin {"POST", "PUT", "PATCH"}

\* A PATCH subscription without a literal body, whose own Content-Type was
\* text/plain, was sent the serialized event as application/json.
C10_Witness ==
    /\ hookCall.done
    /\ hookCall.res.sent
    /\ hookCall.hook.Method = "PATCH"
    /\ hookCall.hook.Body = ""
    /\ hookCall.hook.Headers.CT = "text/plain"
    /\ hookCall.res.req.Header.CT = "application/json"
    /\ hookCall.res.req.Body.data = JSONMarshal(hookCall.evt)


====
